---- MODULE Spec2Model ----
(***************************************************************************)
(* EventFlow API (src/chatbot.py): a FastAPI service with two handlers,    *)
(* POST /chat and POST /generate-flowchart, that forward a chat transcript *)
(* to the Gemini provider and reshape the model's JSON output.             *)
(*                                                                         *)
(* Python str values are TLA+ strings; a character is a string of length   *)
(* one.  A Dict[str, str] is a sequence of [key, text] records with        *)
(* distinct keys, in insertion order (the order dict.values() yields).     *)
(* A parsed JSON value is a record [t, s, items]: its type, its scalar     *)
(* text and its elements (array) or members (object, as [k, val] pairs in  *)
(* document order).                                                        *)
(***************************************************************************)
EXTENDS Integers, Sequences, FiniteSets, TLC

VARIABLES
    GEMINI_API_KEY,  \* TRUE iff os.environ.get("GEMINI_API_KEY") is truthy
    pc,              \* "idle", "awaiting" (inside `await client.post`), "done"
    endpoint,        \* "none", "chat", "flowchart": the handler serving the request
    chat_history,    \* request.chat_history
    current_text,    \* request.current_text (/chat only, "" otherwise)
    missing_items,   \* the heuristic's list, as get_flowchart_response holds it
    contents,        \* payload["contents"] of the outbound call, <<>> before it
    calls,           \* outbound provider calls issued for the current request
    upstream,        \* what the provider did with the call
    response         \* the HTTP response of the current request

vars == <<GEMINI_API_KEY, pc, endpoint, chat_history, current_text,
          missing_items, contents, calls, upstream, response>>

-----------------------------------------------------------------------------
(* Python str primitives                                                   *)

CharAt(s, i) == SubSeq(s, i, i)

\* The characters of the model in code-point order (what sorted() compares).
CodePointOrder ==
    "\t\n $,-/0123456789:ABCDEFGHIJKLMNOPQRSTUVWXYZ_abcdefghijklmnopqrstuvwxyz"

UpperCase == "ABCDEFGHIJKLMNOPQRSTUVWXYZ"

LowerCase == "abcdefghijklmnopqrstuvwxyz"

Code(c) == CHOOSE i \in 1..Len(CodePointOrder) : CharAt(CodePointOrder, i) = c

\* str.lower(), one character
LowerChar(c) ==
    IF \E i \in 1..Len(UpperCase) : CharAt(UpperCase, i) = c
    THEN CharAt(LowerCase, CHOOSE i \in 1..Len(UpperCase) : CharAt(UpperCase, i) = c)
    ELSE c

RECURSIVE lower(_)
\* str.lower()
lower(s) == IF s = "" THEN "" ELSE LowerChar(CharAt(s, 1)) \o lower(SubSeq(s, 2, Len(s)))

\* char.isdigit()
isdigit(c) == c \in {"0", "1", "2", "3", "4", "5", "6", "7", "8", "9"}

\* the characters str.strip() removes
IsSpace(c) == c \in {" ", "\t", "\n"}

\* `text and text.strip()`: truthy iff some character is not whitespace
StripTruthy(text) == \E i \in 1..Len(text) : ~IsSpace(CharAt(text, i))

\* `keyword in s` on str
Contains(s, keyword) ==
    \E i \in 1..(Len(s) - Len(keyword) + 1) : SubSeq(s, i, i + Len(keyword) - 1) = keyword

\* a < b on str: lexicographic by code point
StrLess(a, b) ==
    \E i \in 1..Len(b) :
        /\ \A j \in 1..(i - 1) : j <= Len(a) /\ CharAt(a, j) = CharAt(b, j)
        /\ \/ Len(a) = i - 1
           \/ Len(a) >= i /\ Code(CharAt(a, i)) < Code(CharAt(b, i))

RECURSIVE SortedSeq(_)
\* sorted(S) for a set of distinct str
SortedSeq(S) ==
    IF S = {} THEN <<>>
    ELSE LET m == CHOOSE k \in S : \A o \in S : o = k \/ StrLess(k, o)
         IN  <<m>> \o SortedSeq(S \ {m})

RECURSIVE Join(_, _)
\* sep.join(parts)
Join(sep, parts) ==
    IF parts = <<>> THEN ""
    ELSE IF Len(parts) = 1 THEN parts[1]
    ELSE parts[1] \o sep \o Join(sep, Tail(parts))

\* any(keyword in s for keyword in keywords)
AnyKeyword(keywords, s) == \E k \in keywords : Contains(s, k)

\* any(char.isdigit() for char in s)
AnyDigit(s) == \E i \in 1..Len(s) : isdigit(CharAt(s, i))

-----------------------------------------------------------------------------
(* Dict[str, str]                                                          *)

Keys(h) == {h[i].key : i \in 1..Len(h)}

Values(h) == [i \in 1..Len(h) |-> h[i].text]

Lookup(h, k) == h[CHOOSE i \in 1..Len(h) : h[i].key = k].text

-----------------------------------------------------------------------------
(* HELPER FUNCTIONS                                                        *)

RECURSIVE ConvertKeys(_, _)
\* the loop body of convert_chat_history_to_gemini_format over the sorted keys
ConvertKeys(h, ks) ==
    IF ks = <<>> THEN <<>>
    ELSE LET key  == Head(ks)
             role == IF Contains(lower(key), "ai") THEN "model" ELSE "user"
             text == Lookup(h, key)
         IN  (IF StripTruthy(text) THEN <<[role |-> role, text |-> text]>> ELSE <<>>)
             \o ConvertKeys(h, Tail(ks))

\* mutant: the keys are taken in insertion order, unsorted
convert_chat_history_to_gemini_format_Unsorted(h) ==
    ConvertKeys(h, [i \in 1..Len(h) |-> h[i].key])

convert_chat_history_to_gemini_format(h) == ConvertKeys(h, SortedSeq(Keys(h)))

event_keywords ==
    {"event", "party", "wedding", "birthday", "bash", "ceremony", "meeting",
     "corporate", "get-together", "dinner", "lunch", "anniversary"}

date_keywords ==
    {"jan", "feb", "mar", "apr", "may", "jun", "jul", "aug", "sep", "oct", "nov",
     "dec", "month", "year", "week", "tomorrow", "weekend", "night", "day",
     "2024", "2025"}

guest_keywords == {"guest", "people", "pax", "friends", "family", "crowd", "attendee"}

budget_keywords ==
    {"budget", "cost", "price", "dollar", "usd", "rupees", "rs", "k", "$", "cheap",
     "expensive", "afford", "spending"}

venue_keywords ==
    {"venue", "place", "hall", "hotel", "resort", "home", "house", "garden",
     "outdoor", "indoor", "restaurant", "cafe", "beach", "bar"}

\* mutant: only the latest turn is scanned
FullConversation_LastOnly(h) == IF h = <<>> THEN "" ELSE lower(h[Len(h)].text)

\* full_conversation = " ".join(chat_history.values()).lower()
FullConversation(h) == lower(Join(" ", Values(h)))

\* mutant: the guest-count test is left out
MissingItems_NoGuestTest(full_conversation) ==
    (IF ~AnyKeyword(event_keywords, full_conversation) THEN <<"event type">> ELSE <<>>)
    \o (IF ~AnyKeyword(date_keywords, full_conversation) /\ ~AnyDigit(full_conversation)
        THEN <<"date/time">> ELSE <<>>)
    \o (IF ~AnyKeyword(budget_keywords, full_conversation) THEN <<"budget">> ELSE <<>>)
    \o (IF ~AnyKeyword(venue_keywords, full_conversation) THEN <<"venue">> ELSE <<>>)

\* the list missing_items after the five category tests, in append order
MissingItems(full_conversation) ==
    (IF ~AnyKeyword(event_keywords, full_conversation) THEN <<"event type">> ELSE <<>>)
    \o (IF ~AnyKeyword(date_keywords, full_conversation) /\ ~AnyDigit(full_conversation)
        THEN <<"date/time">> ELSE <<>>)
    \o (LET has_guest_word == AnyKeyword(guest_keywords, full_conversation)
            has_number     == AnyDigit(full_conversation)
        IN  IF ~(has_guest_word \/ has_number) THEN <<"guest count">> ELSE <<>>)
    \o (IF ~AnyKeyword(budget_keywords, full_conversation) THEN <<"budget">> ELSE <<>>)
    \o (IF ~AnyKeyword(venue_keywords, full_conversation) THEN <<"venue">> ELSE <<>>)

\* mutant: the strict policy (at most one item missing) merged into the relaxed one
validate_information_sufficiency_Merged(h) ==
    LET missing == MissingItems(FullConversation(h))
    IN  [is_sufficient |-> Len(missing) <= 1 \/ ~("event type" \in {missing[i] : i \in 1..Len(missing)}),
         missing_items |-> missing]

\* mutant: the verdict is always "sufficient"
validate_information_sufficiency_AlwaysReady(h) ==
    [is_sufficient |-> TRUE, missing_items |-> MissingItems(FullConversation(h))]

\* returns (is_sufficient, missing_items)
validate_information_sufficiency(h) ==
    LET missing == MissingItems(FullConversation(h))
        critical_missing == SelectSeq(missing, LAMBDA item : item \in {"event type"})
    IN  IF Len(critical_missing) > 0
        THEN [is_sufficient |-> FALSE, missing_items |-> missing]
        ELSE [is_sufficient |-> TRUE, missing_items |-> missing]

-----------------------------------------------------------------------------
(* Parsed JSON values (what json.loads returns)                            *)

J(t, s, items) == [t |-> t, s |-> s, items |-> items]

JNull == J("null", "", <<>>)

JTrue == J("bool", "true", <<>>)

JNumber(digits) == J("number", digits, <<>>)

JString(s) == J("string", s, <<>>)

JArray(items) == J("array", "", items)

\* members: a sequence of [k, val] with distinct k, in document order
JObject(members) == J("object", "", members)

Member(k, val) == [k |-> k, val |-> val]

\* a response-model field that the endpoint's schema does not have
Absent == J("absent", "", <<>>)

\* dict: `name in obj`
HasKey(obj, name) == \E i \in 1..Len(obj.items) : obj.items[i].k = name

\* dict: obj[name]
GetKey(obj, name) == obj.items[CHOOSE i \in 1..Len(obj.items) : obj.items[i].k = name].val

\* bool(v)
Truthy(v) ==
    CASE v.t = "null"   -> FALSE
      [] v.t = "bool"   -> v.s = "true"
      [] v.t = "number" -> v.s # "0"
      [] v.t = "string" -> v.s # ""
      [] OTHER          -> v.items # <<>>

RECURSIVE Dumps(_)
\* json.dumps(v) with the default separators
Dumps(v) ==
    CASE v.t = "null"   -> "null"
      [] v.t = "bool"   -> v.s
      [] v.t = "number" -> v.s
      [] v.t = "string" -> "\"" \o v.s \o "\""
      [] v.t = "array"  ->
            "[" \o Join(", ", [i \in 1..Len(v.items) |-> Dumps(v.items[i])]) \o "]"
      [] OTHER          ->
            "{" \o Join(", ", [i \in 1..Len(v.items) |->
                      "\"" \o v.items[i].k \o "\": " \o Dumps(v.items[i].val)]) \o "}"

-----------------------------------------------------------------------------
(* HTTP responses                                                          *)

NoResponse ==
    [status |-> 0, reply_text |-> Absent, updated_plan_json |-> Absent,
     error |-> Absent, detail |-> ""]

\* raise HTTPException(status_code=500, detail=...)
HTTPException500(detail) ==
    [status |-> 500, reply_text |-> Absent, updated_plan_json |-> Absent,
     error |-> Absent, detail |-> detail]

\* any other exception leaving a handler: the framework's 500 page
UnhandledException == HTTPException500("Internal Server Error")

\* ConversationalResponse(reply_text=v): the field is a required str
ConversationalResponse(v) ==
    IF v.t # "string" THEN UnhandledException
    ELSE [status |-> 200, reply_text |-> v, updated_plan_json |-> Absent,
          error |-> Absent, detail |-> ""]

\* FlowchartResponse(updated_plan_json=p, error=e): both Optional[str]
FlowchartResponse(p, e) ==
    IF p.t \notin {"string", "null"} \/ e.t \notin {"string", "null"}
    THEN UnhandledException
    ELSE [status |-> 200, reply_text |-> Absent, updated_plan_json |-> p,
          error |-> e, detail |-> ""]

-----------------------------------------------------------------------------
(* Requests and provider outcomes the model draws from                     *)

MaxTurns == 2

KeyNames == {"02_AI", "10", "2"}

Texts == {"", "  ", "Hi", "Wedding", "50 guests"}

CurrentTexts == {"", " ", "Hi"}

Turn(k, t) == [key |-> k, text |-> t]

\* the five utterances of the worked example, one per turn
ExampleHistory ==
    <<Turn("01_user", "wedding"), Turn("03_user", "June 2025"),
      Turn("05_user", "50 guests"), Turn("07_user", "$5000 budget"),
      Turn("09_user", "garden venue")>>

\* transcripts that meet one side only of a category test
OnlyEventTypeMissing == <<Turn("01_user", "50 guests, $5000 budget, garden venue")>>

GuestWordNoDigit == <<Turn("01_user", "my family")>>

DigitNoGuestWord == <<Turn("01_user", "12/05")>>

\* the transcript of the /chat scenario
ChatExample == <<Turn("01_user", "Hi")>>

\* Dict[str, str] values: at most MaxTurns entries with distinct keys
Histories ==
    {h \in UNION {[1..n -> {Turn(k, t) : k \in KeyNames, t \in Texts}] : n \in 0..MaxTurns} :
        \A i, j \in 1..Len(h) : i # j => h[i].key # h[j].key}
    \cup {ExampleHistory, ChatExample, OnlyEventTypeMissing, GuestWordNoDigit,
          DigitNoGuestWord}

PlanDocument ==
    JObject(<<Member("event_plan", JArray(<<>>)),
              Member("required_vendors", JArray(<<JString("caterer")>>)),
              Member("suggestions", JString("book early"))>>)

\* values json.loads can return for the candidate text
ParsedValues ==
    {JObject(<<>>),
     JObject(<<Member("reply_text", JString("What type of event are you planning?"))>>),
     JObject(<<Member("reply_text", JNull)>>),
     JObject(<<Member("error", JString("x"))>>),
     JObject(<<Member("error", JString("x")), Member("updated_plan_json", PlanDocument)>>),
     JObject(<<Member("error", JString("")), Member("updated_plan_json", PlanDocument)>>),
     JObject(<<Member("error", JNull)>>),
     JObject(<<Member("error", JArray(<<JString("x")>>))>>),
     JObject(<<Member("reply_text", JString("Here is your plan...")),
               Member("updated_plan_json", PlanDocument)>>),
     JObject(<<Member("updated_plan_json", JNull)>>),
     JArray(<<>>), JArray(<<JString("error")>>),
     JString("oops"), JString("error: quota"),
     JNumber("5"), JTrue, JNull}

NoUpstream == [kind |-> "none", status |-> 0, parsed |-> JNull]

\* what `await client.post(...)`, response.json() and the candidate text can be:
\*   network_error, timeout : client.post raises
\*   body_not_json          : response.json() raises
\*   no_candidates          : the envelope lacks candidates[0].content.parts[0].text
\*   text_not_json          : json.loads of the candidate text raises
\*   parsed                 : json.loads returns `parsed`
\* The HTTP status is whatever the provider sent; the code never reads it.
Upstreams ==
    {[kind |-> k, status |-> 0, parsed |-> JNull] : k \in {"network_error", "timeout"}}
    \cup {[kind |-> k, status |-> st, parsed |-> JNull] :
              k \in {"body_not_json", "no_candidates", "text_not_json"}, st \in {200, 503}}
    \cup {[kind |-> "parsed", status |-> 200, parsed |-> v] : v \in ParsedValues}
    \cup {[kind |-> "parsed", status |-> 503, parsed |-> v] :
              v \in {JObject(<<>>),
                     JObject(<<Member("reply_text", JString("Here is your plan...")),
                               Member("updated_plan_json", PlanDocument)>>)}}

-----------------------------------------------------------------------------
(* API FUNCTIONS and endpoints                                             *)

\* `name in ai_data` raises TypeError on int, bool and None
InRaises(v) == v.t \in {"number", "bool", "null"}

\* `name in ai_data` on dict (key), list (element) and str (substring)
In(name, v) ==
    CASE v.t = "object" -> HasKey(v, name)
      [] v.t = "array"  -> \E i \in 1..Len(v.items) : v.items[i] = JString(name)
      [] OTHER          -> Contains(v.s, name)

\* mutant: the reply is read from the wrong member
chat_endpoint_reply_WrongMember(ai_data) ==
    IF ai_data.t # "object" THEN UnhandledException
    ELSE ConversationalResponse(
             IF HasKey(ai_data, "reply") THEN GetKey(ai_data, "reply")
             ELSE JString("Tell me more."))

\* chat_endpoint after get_conversational_response returned ai_data
chat_endpoint_reply(ai_data) ==
    IF ai_data.t # "object" THEN UnhandledException  \* .get: AttributeError
    ELSE ConversationalResponse(
             IF HasKey(ai_data, "reply_text") THEN GetKey(ai_data, "reply_text")
             ELSE JString("Tell me more."))

\* generate_flowchart_endpoint from its second `if` on
flowchart_endpoint_plan(ai_data) ==
    IF In("updated_plan_json", ai_data)
    THEN IF ai_data.t # "object" THEN UnhandledException  \* ai_data[...]: TypeError
         ELSE FlowchartResponse(JString(Dumps(GetKey(ai_data, "updated_plan_json"))), JNull)
    ELSE FlowchartResponse(JNull, JString("Failed to generate plan."))

\* mutant: the plan is looked for before the error
flowchart_endpoint_reply_PlanFirst(ai_data) ==
    IF InRaises(ai_data) THEN UnhandledException
    ELSE IF In("updated_plan_json", ai_data)
    THEN IF ai_data.t # "object" THEN UnhandledException
         ELSE FlowchartResponse(JString(Dumps(GetKey(ai_data, "updated_plan_json"))), JNull)
    ELSE IF In("error", ai_data)
    THEN IF ai_data.t # "object" THEN UnhandledException
         ELSE IF Truthy(GetKey(ai_data, "error"))
         THEN FlowchartResponse(JNull, GetKey(ai_data, "error"))
         ELSE FlowchartResponse(JNull, JString("Failed to generate plan."))
    ELSE FlowchartResponse(JNull, JString("Failed to generate plan."))

\* generate_flowchart_endpoint after get_flowchart_response returned ai_data
flowchart_endpoint_reply(ai_data) ==
    IF InRaises(ai_data) THEN UnhandledException
    ELSE IF In("error", ai_data)
    THEN IF ai_data.t # "object" THEN UnhandledException  \* ai_data["error"]: TypeError
         ELSE IF Truthy(GetKey(ai_data, "error"))
         THEN FlowchartResponse(JNull, GetKey(ai_data, "error"))
         ELSE flowchart_endpoint_plan(ai_data)
    ELSE flowchart_endpoint_plan(ai_data)

\* the early return of get_flowchart_response
InsufficientReply(missing) ==
    JObject(<<Member("error",
                     JString("I still need a bit more info: " \o Join(", ", missing)))>>)

\* final_prompt, its fixed JSON-structure text left out
FinalPrompt(missing) ==
    "Create a detailed JSON event plan based on the conversation. "
    \o (IF missing # <<>>
        THEN "Note: Information about " \o Join(", ", missing)
             \o " is missing. Please suggest reasonable defaults based on the Event Type."
        ELSE "")

Init ==
    /\ GEMINI_API_KEY \in BOOLEAN
    /\ pc = "idle"
    /\ endpoint = "none"
    /\ chat_history = <<>>
    /\ current_text = ""
    /\ missing_items = <<>>
    /\ contents = <<>>
    /\ calls = 0
    /\ upstream = NoUpstream
    /\ response = NoResponse

\* POST /chat up to `await client.post`
ChatRequest(h, t) ==
    /\ pc = "idle"
    /\ endpoint' = "chat"
    /\ chat_history' = h
    /\ current_text' = t
    /\ missing_items' = <<>>
    /\ upstream' = NoUpstream
    /\ IF ~GEMINI_API_KEY
       THEN /\ response' = HTTPException500("GEMINI_API_KEY missing")
            /\ contents' = <<>>
            /\ calls' = 0
            /\ pc' = "done"
       ELSE /\ contents' = convert_chat_history_to_gemini_format(h)
                               \o <<[role |-> "user", text |-> t]>>
            /\ calls' = 1
            /\ response' = NoResponse
            /\ pc' = "awaiting"
    /\ UNCHANGED GEMINI_API_KEY

\* mutant: a failed call is issued again
ChatResume_Retry(u) ==
    /\ pc = "awaiting"
    /\ endpoint = "chat"
    /\ upstream' = u
    /\ IF u.kind = "parsed"
       THEN /\ response' = chat_endpoint_reply(u.parsed)
            /\ calls' = calls
            /\ pc' = "done"
       ELSE /\ response' = NoResponse
            /\ calls' = calls + 1
            /\ pc' = "awaiting"
    /\ UNCHANGED <<GEMINI_API_KEY, endpoint, chat_history, current_text,
                   missing_items, contents>>

\* POST /chat from the provider's answer to the HTTP response
ChatResume(u) ==
    /\ pc = "awaiting"
    /\ endpoint = "chat"
    /\ upstream' = u
    /\ response' =
           CASE u.kind \in {"network_error", "timeout", "body_not_json"} -> UnhandledException
             [] u.kind \in {"no_candidates", "text_not_json"} ->
                    chat_endpoint_reply(
                        JObject(<<Member("reply_text", JString("Could you please repeat that?"))>>))
             [] OTHER -> chat_endpoint_reply(u.parsed)
    /\ pc' = "done"
    /\ UNCHANGED <<GEMINI_API_KEY, endpoint, chat_history, current_text,
                   missing_items, contents, calls>>

\* mutant: the key is checked after the heuristic instead of before it
FlowchartRequest_KeyCheckedLate(h) ==
    /\ pc = "idle"
    /\ endpoint' = "flowchart"
    /\ chat_history' = h
    /\ current_text' = ""
    /\ upstream' = NoUpstream
    /\ LET verdict == validate_information_sufficiency(h)
       IN  /\ missing_items' = verdict.missing_items
           /\ contents' = <<>>
           /\ calls' = 0
           /\ pc' = "done"
           /\ response' =
                  IF ~verdict.is_sufficient
                  THEN flowchart_endpoint_reply(InsufficientReply(verdict.missing_items))
                  ELSE HTTPException500("GEMINI_API_KEY missing")
    /\ UNCHANGED GEMINI_API_KEY

\* POST /generate-flowchart up to `await client.post`, or to its response
\* when the handler returns before the call
FlowchartRequest(h) ==
    /\ pc = "idle"
    /\ endpoint' = "flowchart"
    /\ chat_history' = h
    /\ current_text' = ""
    /\ upstream' = NoUpstream
    /\ IF ~GEMINI_API_KEY
       THEN /\ response' = HTTPException500("GEMINI_API_KEY missing")
            /\ missing_items' = <<>>
            /\ contents' = <<>>
            /\ calls' = 0
            /\ pc' = "done"
       ELSE LET verdict == validate_information_sufficiency(h)
            IN  /\ missing_items' = verdict.missing_items
                /\ IF ~verdict.is_sufficient
                   THEN /\ response' =
                               flowchart_endpoint_reply(InsufficientReply(verdict.missing_items))
                        /\ contents' = <<>>
                        /\ calls' = 0
                        /\ pc' = "done"
                   ELSE /\ contents' = convert_chat_history_to_gemini_format(h)
                                 \o <<[role |-> "user",
                                       text |-> FinalPrompt(verdict.missing_items)]>>
                        /\ calls' = 1
                        /\ response' = NoResponse
                        /\ pc' = "awaiting"
    /\ UNCHANGED GEMINI_API_KEY

\* POST /generate-flowchart from the provider's answer to the HTTP response
FlowchartResume(u) ==
    /\ pc = "awaiting"
    /\ endpoint = "flowchart"
    /\ upstream' = u
    /\ response' =
           IF u.kind = "parsed" THEN flowchart_endpoint_reply(u.parsed)
           ELSE UnhandledException
    /\ pc' = "done"
    /\ UNCHANGED <<GEMINI_API_KEY, endpoint, chat_history, current_text,
                   missing_items, contents, calls>>

\* the handler has returned: its request-scoped values are dropped and the
\* server takes the next request
HandlerReturn ==
    /\ pc = "done"
    /\ pc' = "idle"
    /\ endpoint' = "none"
    /\ chat_history' = <<>>
    /\ current_text' = ""
    /\ missing_items' = <<>>
    /\ contents' = <<>>
    /\ calls' = 0
    /\ upstream' = NoUpstream
    /\ response' = NoResponse
    /\ UNCHANGED GEMINI_API_KEY

Next ==
    \/ \E h \in Histories, t \in CurrentTexts : ChatRequest(h, t)
    \/ \E u \in Upstreams : ChatResume(u)
    \/ \E h \in Histories : FlowchartRequest(h)
    \/ \E u \in Upstreams : FlowchartResume(u)
    \/ HandlerReturn

Spec == Init /\ [][Next]_vars

-----------------------------------------------------------------------------
(* Claims                                                                  *)

AllFive == <<"event type", "date/time", "guest count", "budget", "venue">>

\* the request in hand is a /generate-flowchart one served with the key set
FlowchartWithKey == GEMINI_API_KEY /\ endpoint = "flowchart"

\* no event-type keyword anywhere in the concatenated, lower-cased text
NoEventKeyword(h) ==
    \A k \in event_keywords : ~Contains(lower(Join(" ", Values(h))), k)

\* C1: with the key configured, a /generate-flowchart request whose transcript
\* holds no event-type keyword is answered at once, without ever waiting on
\* the provider: 200, updated_plan_json null, a non-empty error string, and
\* no outbound call.
C1_NoKeywordShortCircuits ==
    (FlowchartWithKey /\ NoEventKeyword(chat_history)) =>
        /\ pc = "done"
        /\ calls = 0
        /\ contents = <<>>
        /\ upstream = NoUpstream
        /\ response.status = 200
        /\ response.updated_plan_json = JNull
        /\ response.error.t = "string"
        /\ response.error.s # ""

C1_Witness ==
    /\ FlowchartWithKey
    /\ chat_history = <<Turn("10", "50 guests"), Turn("2", "Hi")>>
    /\ pc = "done"
    /\ response.error =
           JString("I still need a bit more info: event type, budget, venue")

\* C2: with the key absent every request, on either endpoint and whatever
\* its transcript, ends at once in the 500 configuration error; the heuristic
\* has not run, no payload was built and no outbound call was issued.
C2_MissingKeyFailsFast ==
    (~GEMINI_API_KEY /\ endpoint # "none") =>
        /\ pc = "done"
        /\ response = HTTPException500("GEMINI_API_KEY missing")
        /\ calls = 0
        /\ contents = <<>>
        /\ missing_items = <<>>
        /\ upstream = NoUpstream

C2_Witness ==
    /\ ~GEMINI_API_KEY
    /\ endpoint = "flowchart"
    /\ chat_history = <<Turn("2", "Hi")>>
    /\ ~validate_information_sufficiency(chat_history).is_sufficient
    /\ pc = "done"
    /\ response.status = 500

\* C3: a request issues at most one outbound call; once the provider has
\* failed (network failure, timeout, unparsable or mis-shaped body, non-2xx
\* status) the request is over and its call count is still one.
C3_AtMostOneCall ==
    /\ calls \in {0, 1}
    /\ pc = "awaiting" => calls = 1 /\ upstream = NoUpstream
    /\ upstream # NoUpstream => pc = "done" /\ calls = 1

C3_Witness ==
    /\ pc = "done"
    /\ upstream.kind = "timeout"
    /\ calls = 1

\* the model output of the request in hand, once /generate-flowchart has
\* answered a call whose candidate text parsed
FlowchartParsed ==
    pc = "done" /\ endpoint = "flowchart" /\ upstream.kind = "parsed"

\* member `name` of object v is there and is a non-empty text
NonEmptyText(v, name) ==
    /\ \E i \in 1..Len(v.items) : v.items[i].k = name
    /\ \A i \in 1..Len(v.items) :
           v.items[i].k = name => v.items[i].val.t = "string" /\ v.items[i].val.s # ""

\* member `name` of object v is missing or empty (an empty text, or null)
MissingOrEmpty(v, name) ==
    \A i \in 1..Len(v.items) :
        v.items[i].k = name => v.items[i].val \in {JString(""), JNull}

\* member `name` of object v
MemberOf(v, name) == v.items[CHOOSE i \in 1..Len(v.items) : v.items[i].k = name].val

PlanDocumentText ==
    "{\"event_plan\": [], \"required_vendors\": [\"caterer\"], \"suggestions\": \"book early\"}"

\* The three outcomes of the plan branch for a parsed object whose `error`
\* member is a text, empty or missing, with `fallback` as the third one's text.
ThreeWayBranch(fallback) ==
    LET ai == upstream.parsed
    IN  (FlowchartParsed /\ ai.t = "object"
             /\ (NonEmptyText(ai, "error") \/ MissingOrEmpty(ai, "error"))) =>
            /\ response.status = 200
            /\ IF NonEmptyText(ai, "error")
               THEN /\ response.error = MemberOf(ai, "error")
                    /\ response.updated_plan_json = JNull
               ELSE IF \E i \in 1..Len(ai.items) : ai.items[i].k = "updated_plan_json"
               THEN /\ response.error = JNull
                    /\ response.updated_plan_json.t = "string"
                    /\ MemberOf(ai, "updated_plan_json") = JNull
                           => response.updated_plan_json.s = "null"
                    /\ MemberOf(ai, "updated_plan_json") = PlanDocument
                           => response.updated_plan_json.s = PlanDocumentText
               ELSE /\ response.updated_plan_json = JNull
                    /\ response.error = JString(fallback)

C4_WitnessErrorFirst ==
    /\ FlowchartParsed
    /\ upstream.parsed =
           JObject(<<Member("error", JString("x")), Member("updated_plan_json", PlanDocument)>>)
    /\ response.status = 200
    /\ response.error = JString("x")
    /\ response.updated_plan_json = JNull

\* the three outcomes: an error payload, a serialized plan, the fixed fallback
IsPlanOutcome(r) ==
    /\ r.status = 200
    /\ \/ r.updated_plan_json = JNull /\ r.error.t = "string" /\ r.error.s # ""
       \/ r.updated_plan_json.t = "string" /\ r.error = JNull

\* C5: whatever JSON value the candidate text parses to (object, array,
\* string, number, boolean, null), /generate-flowchart answers 200 with one of
\* the three outcomes.
C5_BranchIsTotal == FlowchartParsed => IsPlanOutcome(response)

\* the provider answered outside 2xx, or the call failed at the network level
TransportFailed ==
    \/ upstream.kind \in {"network_error", "timeout"}
    \/ upstream.kind # "none" /\ upstream.status \notin 200..299

\* C6: a request whose provider call met a non-2xx status or a network
\* failure ends in a 500 carrying a detail, never in a 200.
C6_TransportErrorIs500 ==
    (pc = "done" /\ TransportFailed) => response.status = 500 /\ response.detail # ""

\* C7: on /chat with the key set and a candidate text that parses to an
\* object, a 200 response carries the object's reply_text when it has one, is
\* given whenever that reply_text is a string, and carries "Tell me more."
\* when the object has no reply_text.
C7_ChatReplyText ==
    LET ai == upstream.parsed
    IN  (pc = "done" /\ endpoint = "chat" /\ GEMINI_API_KEY
             /\ upstream.kind = "parsed" /\ ai.t = "object") =>
            IF \E i \in 1..Len(ai.items) : ai.items[i].k = "reply_text"
            THEN /\ response.status = 200 => response.reply_text = MemberOf(ai, "reply_text")
                 /\ MemberOf(ai, "reply_text").t = "string" => response.status = 200
            ELSE /\ response.status = 200
                 /\ response.reply_text = JString("Tell me more.")

C7_Witness ==
    /\ pc = "done"
    /\ endpoint = "chat"
    /\ chat_history = ChatExample
    /\ current_text = "Hi"
    /\ upstream.status = 200
    /\ upstream.parsed =
           JObject(<<Member("reply_text", JString("What type of event are you planning?"))>>)
    /\ response.status = 200
    /\ response.reply_text = JString("What type of event are you planning?")

\* text t is empty or all whitespace
IsBlank(t) == \A i \in 1..Len(t) : SubSeq(t, i, i) \in {" ", "\t", "\n"}

\* key k holds the marker "ai" in some letter case
HasAiMarker(k) ==
    \E i \in 1..(Len(k) - 1) :
        SubSeq(k, i, i) \in {"a", "A"} /\ SubSeq(k, i + 1, i + 1) \in {"i", "I"}

\* the keys of h whose text is kept
KeptKeys(h) == {h[i].key : i \in {j \in 1..Len(h) : ~IsBlank(h[j].text)}}

\* the place of kept key k among the kept keys in lexicographic order
RankOf(h, k) == 1 + Cardinality({o \in KeptKeys(h) : StrLess(o, k)})

\* the messages the normalizer put into the payload: all but the final turn,
\* which the API function appends
NormalizedPart == SubSeq(contents, 1, Len(contents) - 1)

\* C8: the normalizer's output holds exactly one message per key whose text
\* is not blank, at that key's lexicographic rank among the kept keys (so
\* dropping the blank turns leaves the order of the others), with that key's
\* text and with role "model" iff the key holds the marker "ai"; no message of
\* it has a blank text.
C8_NormalizerOutput ==
    contents # <<>> =>
        /\ Len(NormalizedPart) = Cardinality(KeptKeys(chat_history))
        /\ \A i \in 1..Len(chat_history) :
               ~IsBlank(chat_history[i].text) =>
                   NormalizedPart[RankOf(chat_history, chat_history[i].key)] =
                       [role |-> IF HasAiMarker(chat_history[i].key) THEN "model" ELSE "user",
                        text |-> chat_history[i].text]
        /\ \A i \in 1..Len(NormalizedPart) : ~IsBlank(NormalizedPart[i].text)

C8_Witness ==
    /\ pc = "awaiting"
    /\ chat_history = <<Turn("2", "Wedding"), Turn("10", "  ")>>
    /\ NormalizedPart = <<[role |-> "user", text |-> "Wedding"]>>

C8_WitnessOrder ==
    /\ pc = "awaiting"
    /\ chat_history = <<Turn("2", "Wedding"), Turn("02_AI", "50 guests")>>
    /\ NormalizedPart = <<[role |-> "model", text |-> "50 guests"],
                          [role |-> "user", text |-> "Wedding"]>>

\* h with turn x put in after its first p turns
InsertTurn(h, p, x) == SubSeq(h, 1, p) \o <<x>> \o SubSeq(h, p + 1, Len(h))

\* the histories got from h by adding one more turn, under a new key
OneMoreTurn(h) ==
    {InsertTurn(h, p, Turn(k, t)) :
        p \in 0..Len(h), k \in KeyNames \ {h[i].key : i \in 1..Len(h)}, t \in Texts}

Range(seq) == {seq[i] : i \in 1..Len(seq)}

\* the heuristic has just run on the transcript of the request in hand
HeuristicRan == FlowchartWithKey /\ upstream = NoUpstream

\* C9: when the heuristic has run on chat_history, its run on any history
\* with one more turn reports no category that was not missing before, and is
\* ready if chat_history was (the handler went on to the provider call).
C9_Monotonic ==
    HeuristicRan =>
        \A h2 \in OneMoreTurn(chat_history) :
            LET after == validate_information_sufficiency(h2)
            IN  /\ Range(after.missing_items) \subseteq Range(missing_items)
                /\ pc = "awaiting" => after.is_sufficient

C9_Witness ==
    /\ HeuristicRan
    /\ chat_history = <<Turn("2", "50 guests")>>
    /\ pc = "done"
    /\ "event type" \in Range(missing_items)
    /\ "event type" \notin
           Range(validate_information_sufficiency(
                     <<Turn("2", "50 guests"), Turn("10", "Wedding")>>).missing_items)

\* C10: on a transcript with no text the heuristic is not ready and reports
\* all five categories; on the five-utterance example it is ready and reports
\* none.
C10_HeuristicExamples ==
    HeuristicRan =>
        /\ (\A i \in 1..Len(chat_history) : chat_history[i].text = "") =>
               pc = "done" /\ calls = 0 /\ missing_items = AllFive
        /\ chat_history = ExampleHistory =>
               pc = "awaiting" /\ calls = 1 /\ missing_items = <<>>

C10_Witness ==
    /\ HeuristicRan
    /\ chat_history = ExampleHistory
    /\ pc = "awaiting"
    /\ missing_items = <<>>

C10_WitnessNoText ==
    /\ HeuristicRan
    /\ chat_history = <<>>
    /\ missing_items = AllFive

C11_WitnessEventOnly ==
    /\ HeuristicRan
    /\ chat_history = <<Turn("2", "Wedding")>>
    /\ missing_items = <<"date/time", "guest count", "budget", "venue">>
    /\ pc = "awaiting"

\* the transcript's concatenated, lower-cased text
JoinedLower(h) == lower(Join(" ", Values(h)))

\* s holds a decimal digit
HasDigit(s) ==
    \E i \in 1..Len(s) :
        SubSeq(s, i, i) \in {"0", "1", "2", "3", "4", "5", "6", "7", "8", "9"}

\* s holds a guest word
HasGuestWord(s) == \E w \in guest_keywords : Contains(s, w)

\* C12: when the heuristic has run, "guest count" is left out of the missing
\* items only if the transcript's text holds both a decimal digit and a guest
\* word; with one of the two only, it is reported missing.
C12_GuestCountNeedsBoth ==
    HeuristicRan =>
        ("guest count" \notin Range(missing_items) =>
             HasDigit(JoinedLower(chat_history)) /\ HasGuestWord(JoinedLower(chat_history)))

\* C13: no turn of the outbound payload has an empty or all-whitespace text,
\* the final turn that /chat builds from current_text included.
C13_NoBlankTurnSent ==
    contents # <<>> => \A i \in 1..Len(contents) : ~IsBlank(contents[i].text)

====
